---- MODULE Spec2Model ----
(***************************************************************************)
(* The tiered in-memory store (InMemoryStore), its manager                 *)
(* (MemoryStorageManager) and the self-correction loop (SelfCorrector) of  *)
(* the memory agent, as state machines.                                    *)
(*                                                                         *)
(* Every coroutine of the store and of the manager runs without a real     *)
(* suspension point (it only awaits other coroutines of the same classes), *)
(* so under asyncio each public call is one atomic step.  A call that      *)
(* raises keeps the mutations it made before the raise; the exception is   *)
(* carried in the field exc of the state record the operators thread.      *)
(***************************************************************************)
EXTENDS Integers, Sequences, FiniteSets, TLC

(***************************************************************************)
(* Bounds of the model.                                                    *)
(***************************************************************************)
NumKeys == 3
hot_capacity == 2
warm_capacity == 2
cold_capacity == 1
MaxAccess == 2
MaxDepth == 2
MaxRecorded == 130
MaxChecks == 1
MaxStat == 2
NumMsgIds == 3
MaxTime == 2
MaxChain == 3
MaxOrphans == 2

Keys == 1..NumKeys
\* "<id>_improved" is the id NumKeys places further on
Improved(id) == id + NumKeys
AllIds == 1..(2 * NumKeys)

NoScore == -1
\* The blocks callers hand to the manager: block k carries a relevance score
\* (in hundredths; NoScore is Python's None) and a content, one mix per id.
ScoreOf(k) == <<90, 50, NoScore, 30>>[((k - 1) % 4) + 1]
ContentOf(k) == IF k % 2 = 0 THEN "long" ELSE "short"
Tiers == {"hot", "warm", "cold"}
NoTier == "none"
\* the sessions callers name; a call that names none passes None
SessionIds == {"s1", "s2"}
NoSession == "None"
AllSessions == SessionIds \cup {"default"}
None == [kind |-> "None"]
True == [kind |-> "bool", value |-> TRUE]
False == [kind |-> "bool", value |-> FALSE]

(***************************************************************************)
(* ConversationBlock: the declared pydantic fields.  Reading any other     *)
(* attribute raises AttributeError, and a keyword argument that is not a   *)
(* field is dropped by the constructor (pydantic's default extra=ignore).  *)
(***************************************************************************)
ConversationBlockLegacy ==
    {"block_id", "messages", "relevance_score", "created_at", "last_accessed",
     "access_count", "content", "metadata", "sequence_number", "session_id",
     "source", "message_id"}

ConversationBlock ==
    {"block_id", "sequence_number", "timestamp", "session_id", "content",
     "content_type", "source", "message_id", "tool_name", "tool_parameters",
     "tool_result", "relevance_score", "confidence_score", "quality_metrics",
     "relevance_tags", "evaluation_result", "memory_tier", "access_count",
     "last_accessed", "retention_priority", "compressed_size", "parent_blocks",
     "child_blocks", "conversation_thread", "context_window",
     "processing_status", "evaluation_reason", "correction_history"}

HasAttr(attr) == attr \in ConversationBlock

\* names bound at module level in memory_store.py (imports and definitions)
memory_store_globals ==
    {"asyncio", "gzip", "json", "OrderedDict", "defaultdict", "datetime",
     "timedelta", "Any", "Dict", "List", "Optional", "Set", "Tuple",
     "get_logger", "ConversationBlock", "Message", "IStorage", "StorageTier",
     "logger", "InMemoryStore"}

NoMetadata == "no-metadata"

\* ConversationBlock(...) as the agent and the corrector construct it
NewBlock(id, score, content, metadata) ==
    [kind |-> "block", block_id |-> id, relevance_score |-> score,
     access_count |-> 0, content |-> content,
     metadata |-> IF HasAttr("metadata") THEN metadata ELSE NoMetadata]

(***************************************************************************)
(* OrderedDict / dict: a sequence of entries [key, value] in insertion     *)
(* order.                                                                  *)
(***************************************************************************)
OdKeys(d) == {d[i].key : i \in DOMAIN d}
OdHas(d, k) == k \in OdKeys(d)
OdGet(d, k) == IF OdHas(d, k)
               THEN (CHOOSE i \in DOMAIN d : d[i].key = k)
               ELSE 0
OdValue(d, k) == IF OdHas(d, k) THEN d[OdGet(d, k)].value ELSE None
OdPop(d, k) == SelectSeq(d, LAMBDA e : e.key # k)
\* d[k] = v: an existing key keeps its place
OdSet(d, k, v) == IF OdHas(d, k)
                  THEN [d EXCEPT ![OdGet(d, k)] = [key |-> k, value |-> v]]
                  ELSE Append(d, [key |-> k, value |-> v])
\* d[k] = v; d.move_to_end(k)
OdSetLast(d, k, v) == Append(OdPop(d, k), [key |-> k, value |-> v])
OdKeySeq(d) == [i \in DOMAIN d |-> d[i].key]

Raise(S, e) == [S EXCEPT !.exc = e]
Return(S, v) == [S EXCEPT !.ret = v]
Ok(S) == S.exc = "none"

(***************************************************************************)
(* InMemoryStore                                                           *)
(***************************************************************************)
compression_threshold == 1024
\* a block read out of Warm is promoted when access_count > 5
promotion_access_count == 5

\* len(json.dumps(block_data).encode()) for the two content sizes of the model
SerializedLen(block) == IF block.content = "long" THEN 2048 ELSE 256

\* _serialize_block reads block_id, messages, relevance_score, created_at,
\* last_accessed and access_count of the block
_serialize_block_reads ==
    {"block_id", "messages", "relevance_score", "created_at", "last_accessed",
     "access_count"}

_serialize_block(S, block) ==
    IF \A a \in _serialize_block_reads : HasAttr(a)
    THEN Return(S, [kind |-> "block_data", block_id |-> block.block_id,
                    relevance_score |-> block.relevance_score,
                    access_count |-> block.access_count,
                    content |-> block.content, metadata |-> block.metadata])
    ELSE Raise(S, "AttributeError")

_create_summary(block_data) ==
    [kind |-> "summary", relevance_score |-> block_data.relevance_score,
     summary |-> block_data.content]

\* _deserialize_block evaluates MessageRole[...] for each message of the data
_deserialize_block(S, data) ==
    IF "MessageRole" \in memory_store_globals
    THEN Return(S, [kind |-> "block", block_id |-> data.block_id,
                    relevance_score |-> data.relevance_score,
                    access_count |-> data.access_count,
                    content |-> data.content, metadata |-> NoMetadata])
    ELSE Raise(S, "NameError")

\* the rest of a call runs only if no exception is pending
Then(S, F(_)) == IF Ok(S) THEN F(S) ELSE S

_store_cold(S, key, value) ==
    LET S1 == IF Len(S.cold) >= cold_capacity
              THEN [S EXCEPT !.cold = Tail(@),
                             !.tidx = OdPop(@, S.cold[1].key),
                             \* _stats["total_evicted"] += 1, kept as the
                             \* set of keys evicted by this call
                             !.evicted = @ \cup {S.cold[1].key}]
              ELSE S
    IN  Then(IF value.kind = "block"
             THEN Then(_serialize_block(S1, value),
                       LAMBDA S2 : Return(S2, _create_summary(S2.ret)))
             ELSE Return(S1, value),
             LAMBDA S3 : [S3 EXCEPT !.cold = OdSetLast(@, key, S3.ret),
                                    !.tidx = OdSet(@, key, "cold")])

_store_warm(S, key, value) ==
    Then(IF Len(S.warm) >= warm_capacity
         THEN \* gzip.decompress(compressed_data), unconditionally
              IF ~S.warm[1].value.gzipped
              THEN Raise([S EXCEPT !.warm = Tail(@)], "BadGzipFile")
              ELSE _store_cold([S EXCEPT !.warm = Tail(@)], S.warm[1].key,
                               _create_summary(S.warm[1].value.data))
         ELSE S,
         LAMBDA S1 :
           Then(_serialize_block(S1, value),
                LAMBDA S2 :
                  IF ~HasAttr("created_at") THEN Raise(S2, "AttributeError")
                  ELSE [S2 EXCEPT
                          !.warm = OdSetLast(@, key,
                              [gzipped |-> SerializedLen(value)
                                             > compression_threshold,
                               data |-> S2.ret,
                               access_count |-> value.access_count]),
                          !.tidx = OdSet(@, key, "warm")]))

_store_hot_mut(S, key, value) ==
    Then(IF Len(S.hot) > hot_capacity
         THEN _store_warm([S EXCEPT !.hot = Tail(@)],
                          S.hot[1].key, S.hot[1].value)
         ELSE S,
         LAMBDA S1 : [S1 EXCEPT !.hot = OdSetLast(@, key, value)])

_store_hot(S, key, value) ==
    Then(IF Len(S.hot) >= hot_capacity
         THEN _store_warm([S EXCEPT !.hot = Tail(@)],
                          S.hot[1].key, S.hot[1].value)
         ELSE S,
         LAMBDA S1 : [S1 EXCEPT !.hot = OdSetLast(@, key, value)])

store(S, key, value, tier, session_id) ==
    Then(CASE tier = "hot" -> _store_hot(S, key, value)
           [] tier = "warm" -> _store_warm(S, key, value)
           [] OTHER -> _store_cold(S, key, value),
         LAMBDA S1 : [S1 EXCEPT !.sess[session_id] = @ \cup {key},
                                !.tidx = OdSet(@, key, tier)])

\* a Hot branch that hands back the block cut down to its summary form
_touch_mut(S, key, block) ==
    Return([S EXCEPT !.hot = OdSetLast(@, key,
                         [block EXCEPT !.access_count = @ + 1])],
           [block EXCEPT !.access_count = @ + 1, !.content = "short"])

\* the Hot branch: access_count += 1 and move_to_end
_touch(S, key, block) ==
    Return([S EXCEPT !.hot = OdSetLast(@, key,
                         [block EXCEPT !.access_count = @ + 1])],
           [block EXCEPT !.access_count = @ + 1])

retrieve(S, key) ==
    LET tier == IF OdHas(S.tidx, key) THEN OdValue(S.tidx, key) ELSE NoTier
    IN  IF tier = NoTier THEN Return(S, None)
        ELSE IF tier = "hot" THEN
            IF ~OdHas(S.hot, key) THEN Return(S, None)
            ELSE _touch(S, key, OdValue(S.hot, key))
        ELSE IF tier = "warm" THEN
            IF ~OdHas(S.warm, key) THEN Return(S, None)
            \* len(compressed) < len(str(compressed)) holds for every bytes
            \* value, so gzip.decompress is always applied
            ELSE IF ~OdValue(S.warm, key).gzipped THEN Raise(S, "BadGzipFile")
            ELSE Then(_deserialize_block(S, OdValue(S.warm, key).data),
                      LAMBDA S1 :
                        IF S1.ret.access_count > promotion_access_count
                        THEN Then(_store_hot(S1, key, S1.ret),
                                  LAMBDA S2 :
                                    Return([S2 EXCEPT !.warm = OdPop(@, key)],
                                           S1.ret))
                        ELSE S1)
        ELSE
            IF ~OdHas(S.cold, key) THEN Return(S, None)
            \* the minimal block is built with role=MessageRole.SYSTEM
            ELSE IF "MessageRole" \notin memory_store_globals
                 THEN Raise(S, "NameError")
            \* and without the required fields of ConversationBlock
            ELSE IF \E a \in {"sequence_number", "session_id", "content",
                              "source", "message_id"} : HasAttr(a)
                 THEN Raise(S, "ValidationError")
            ELSE Return(S, NewBlock(key, OdValue(S.cold, key).relevance_score,
                                    OdValue(S.cold, key).summary, NoMetadata))

delete(S, key, session_id) ==
    LET tier == IF OdHas(S.tidx, key) THEN OdValue(S.tidx, key) ELSE NoTier
    IN  IF tier = NoTier THEN Return(S, False)
        ELSE Return([S EXCEPT !.hot = IF tier = "hot" THEN OdPop(@, key) ELSE @,
                              !.warm = IF tier = "warm" THEN OdPop(@, key) ELSE @,
                              !.cold = IF tier = "cold" THEN OdPop(@, key) ELSE @,
                              !.tidx = OdPop(@, key),
                              !.sess[session_id] = @ \ {key}], True)

\* metadata carries a session_id, or is None
list_keys(S, session_id) ==
    IF session_id # NoSession
    THEN SelectSeq(OdKeySeq(S.tidx), LAMBDA k : k \in S.sess[session_id])
    ELSE OdKeySeq(S.tidx)

(***************************************************************************)
(* MemoryStorageManager                                                    *)
(***************************************************************************)
relevance_threshold == 40
promotion_threshold == 70

\* None > 0.7 raises TypeError
_determine_tier(block) ==
    IF block.relevance_score = NoScore THEN "TypeError"
    ELSE IF block.relevance_score > promotion_threshold THEN "hot"
    ELSE IF block.relevance_score > relevance_threshold THEN "warm"
    ELSE "cold"

\* session_id or "default"
SessionOr(session_id) ==
    IF session_id = NoSession THEN "default" ELSE session_id

store_block(S, block, tier, session_id) ==
    LET t == IF tier = NoTier THEN _determine_tier(block) ELSE tier
    IN  IF t = "TypeError" THEN Raise(S, "TypeError")
        ELSE Then(store(S, block.block_id, block, t, SessionOr(session_id)),
                  LAMBDA S1 : Return([S1 EXCEPT !.ta[block.block_id] = t], None))

\* if success: pop the assignment; self._migration_stats["evictions"] += 1
delete_block(S, block_id, session_id) ==
    Then(delete(S, block_id, SessionOr(session_id)),
         LAMBDA S1 : IF S1.ret = True
                     THEN [S1 EXCEPT !.ta[block_id] = NoTier,
                                     !.stats.evictions = @ + 1]
                     ELSE S1)

list_blocks(S, tier, session_id) ==
    IF tier = NoTier THEN list_keys(S, session_id)
    ELSE SelectSeq(list_keys(S, session_id), LAMBDA k : S.ta[k] = tier)

\* StorageTier.value: the strings "hot", "warm", "cold", which Python
\* compares as strings ("cold" < "hot" < "warm")
ValueRank(t) == CASE t = "cold" -> 1 [] t = "hot" -> 2 [] OTHER -> 3
ValueLess(a, b) == ValueRank(a) < ValueRank(b)

_promote_target(from_tier) == IF from_tier = "cold" THEN "warm" ELSE "hot"

RECURSIVE retrieve_block(_, _, _, _)
RECURSIVE migrate_tier(_, _, _, _, _)

\* a retrieve_block that promotes whatever tier the block is assigned to
retrieve_block_any_tier(S, block_id, session_id, depth) ==
    IF depth > MaxDepth THEN Raise(S, "RecursionError")
    ELSE Then(retrieve(S, block_id),
              LAMBDA S1 :
                IF S1.ret = None THEN S1
                ELSE IF S1.ta[block_id] = NoTier THEN S1
                ELSE IF S1.ret.access_count > promotion_access_count
                        \/ (S1.ret.relevance_score # NoScore
                            /\ S1.ret.relevance_score > promotion_threshold)
                THEN Then(migrate_tier(S1, block_id,
                                       _promote_target(S1.ta[block_id]),
                                       session_id, depth + 1),
                          LAMBDA S2 : Return(S2, S1.ret))
                ELSE IF S1.ret.relevance_score = NoScore
                THEN Raise(S1, "TypeError")
                ELSE S1)

\* depth counts the Python frames of the retrieve_block -> _promote_block ->
\* migrate_tier -> retrieve_block chain; past the limit the interpreter raises
retrieve_block(S, block_id, session_id, depth) ==
    IF depth > MaxDepth THEN Raise(S, "RecursionError")
    ELSE Then(retrieve(S, block_id),
              LAMBDA S1 :
                IF S1.ret = None THEN S1
                ELSE IF S1.ta[block_id] = NoTier \/ S1.ta[block_id] = "hot"
                THEN S1
                ELSE IF S1.ret.access_count > promotion_access_count
                        \/ (S1.ret.relevance_score # NoScore
                            /\ S1.ret.relevance_score > promotion_threshold)
                THEN Then(migrate_tier(S1, block_id,
                                       _promote_target(S1.ta[block_id]),
                                       session_id, depth + 1),
                          LAMBDA S2 : Return(S2, S1.ret))
                \* None > promotion_threshold
                ELSE IF S1.ret.relevance_score = NoScore
                THEN Raise(S1, "TypeError")
                ELSE S1)

\* current_tier = self._tier_assignments.get(block_id), read after
\* store_block has written it; if to_tier.value < current_tier.value:
\* promotions += 1, else: demotions += 1
migrate_tier(S, block_id, to_tier, session_id, depth) ==
    Then(retrieve_block(S, block_id, session_id, depth),
         LAMBDA S1 :
           IF S1.ret = None THEN Return(S1, False)
           ELSE Then(store_block(delete_block(S1, block_id, session_id),
                                 S1.ret, to_tier, session_id),
                     LAMBDA S3 :
                       Return(IF ValueLess(to_tier, S3.ta[block_id])
                              THEN [S3 EXCEPT !.stats.promotions = @ + 1]
                              ELSE [S3 EXCEPT !.stats.demotions = @ + 1],
                              True)))

(***************************************************************************)
(* SelfCorrector                                                           *)
(***************************************************************************)
\* the members of the enum Decision
Decision == {"RETAIN", "DISCARD", "REEVALUATE", "COMPRESS"}

max_corrections_per_cycle == 2
enable_auto_correction == TRUE
\* the history keeps its last 100 entries
history_limit == 100

\* RelevanceScore.overall_score (in hundredths) of the scores callers pass
OverallOf(k) == <<50, 42, 58, 46>>[((k - 1) % 4) + 1]

\* the (block, score) pairs of a call: the blocks of ids ks, one decision
ProblematicBlocks(ks, d) ==
    [i \in DOMAIN ks |->
       [block |-> NewBlock(ks[i], ScoreOf(ks[i]), ContentOf(ks[i]), NoMetadata),
        decision |-> d, overall_score |-> OverallOf(ks[i])]]

RECURSIVE RetrieveContext(_, _, _, _, _, _)
\* for i in range(lo, hi): if i != block_index: retrieve_block(block_ids[i])
RetrieveContext(S, block_ids, i, hi, block_index, session_id) ==
    IF i > hi \/ ~Ok(S) THEN S
    ELSE IF i = block_index
         THEN RetrieveContext(S, block_ids, i + 1, hi, block_index, session_id)
         ELSE RetrieveContext(retrieve_block(S, block_ids[i], session_id, 0),
                              block_ids, i + 1, hi, block_index, session_id)

Max(a, b) == IF a > b THEN a ELSE b
Min(a, b) == IF a < b THEN a ELSE b

\* returns the improved block, or None when the provider call raised
_improve_block(S, block, overall_score, llm_ok, session_id) ==
    LET block_ids == list_blocks(S, NoTier, session_id)
        block_index == IF \E i \in DOMAIN block_ids : block_ids[i] = block.block_id
                       THEN CHOOSE i \in DOMAIN block_ids :
                                block_ids[i] = block.block_id
                       ELSE 0
    IN  Then(IF block_index = 0 THEN S
             ELSE RetrieveContext(S, block_ids, Max(1, block_index - 3),
                                  Min(Len(block_ids), block_index + 2),
                                  block_index, session_id),
             LAMBDA S1 :
               IF ~llm_ok THEN Return(S1, None)
               ELSE Return(S1, NewBlock(Improved(block.block_id),
                                        (overall_score * 3) \div 2, "improved",
                                        block.content)))

\* R carries the storage state st, the session_id of the call, the list
\* corrections and correction_count;
\* a call into the manager that raised ends the loop with the exception in st
ThenR(R, S, F(_)) == IF Ok(S) THEN F(S) ELSE [R EXCEPT !.st = S]

Corrected(R, S, correction) ==
    [R EXCEPT !.st = S,
              !.corrections = Append(@, correction),
              !.correction_count = @ + 1]

RECURSIVE CorrectLoop(_, _, _, _)
CorrectLoop(R, problematic_blocks, i, llm_ok) ==
    IF i > Len(problematic_blocks) THEN R
    ELSE IF R.correction_count >= max_corrections_per_cycle THEN R
    \* score.decision == Decision.REMOVE looks the member up first
    ELSE IF "REMOVE" \notin Decision
    THEN [R EXCEPT !.st = Raise(@, "AttributeError")]
    ELSE IF problematic_blocks[i].decision = "REMOVE" THEN
        ThenR(R, delete_block(R.st, problematic_blocks[i].block.block_id,
                              R.session_id),
              LAMBDA S1 :
                CorrectLoop(IF S1.ret = True
                            THEN Corrected(R, S1,
                                   [type |-> "removal",
                                    block_id |->
                                        problematic_blocks[i].block.block_id,
                                    new_block_id |-> 0])
                            ELSE [R EXCEPT !.st = S1],
                            problematic_blocks, i + 1, llm_ok))
    ELSE IF "REVIEW" \notin Decision
    THEN [R EXCEPT !.st = Raise(@, "AttributeError")]
    ELSE IF problematic_blocks[i].decision = "REVIEW" /\ enable_auto_correction
    THEN
        ThenR(R, _improve_block(R.st, problematic_blocks[i].block,
                                problematic_blocks[i].overall_score, llm_ok,
                                R.session_id),
              LAMBDA S1 :
                IF S1.ret = None
                THEN CorrectLoop([R EXCEPT !.st = S1], problematic_blocks,
                                 i + 1, llm_ok)
                ELSE ThenR(R,
                           store_block(
                               delete_block(S1,
                                   problematic_blocks[i].block.block_id,
                                   R.session_id),
                               S1.ret, NoTier, R.session_id),
                           LAMBDA S3 :
                             CorrectLoop(
                               Corrected(R, S3,
                                 [type |-> "improvement",
                                  block_id |->
                                      problematic_blocks[i].block.block_id,
                                  new_block_id |-> S1.ret.block_id]),
                               problematic_blocks, i + 1, llm_ok)))
    ELSE CorrectLoop(R, problematic_blocks, i + 1, llm_ok)

(***************************************************************************)
(* RelevanceEvaluationService and SelfCorrector.analyze_conversation       *)
(***************************************************************************)
review_threshold == 60
keep_threshold == 70
decision_review_threshold == 40

\* RelevanceScore.overall_score (in hundredths) the evaluator computes
EvalScore(k) == <<80, 30, 58, 65>>[((k - 1) % 4) + 1]

\* the attributes of a block the heuristic evaluator reads
evaluator_reads == {"messages", "created_at"}

\* the five factors of RelevanceFactors
FactorNames == {"semantic_alignment", "temporal_relevance",
                "goal_contribution", "information_quality",
                "factual_consistency"}
FactorSeq == <<"semantic_alignment", "temporal_relevance",
               "goal_contribution", "information_quality",
               "factual_consistency">>

\* the default weights of the constructors, in hundredths
default_weights == [f \in FactorNames |->
    CASE f = "semantic_alignment" -> 30
      [] f = "temporal_relevance" -> 20
      [] f = "goal_contribution" -> 25
      [] f = "information_quality" -> 15
      [] OTHER -> 10]

RECURSIVE SumOver(_, _)
\* sum(w.values())
SumOver(w, i) ==
    IF i > Len(FactorSeq) THEN 0 ELSE w[FactorSeq[i]] + SumOver(w, i + 1)

\* BaseRelevanceEvaluator.__init__: total_weight = the sum of the five
\* weights; self.weights = {name: weight / total_weight}.  A normalised
\* weight is kept as the fraction num[name] / den.
__init__(S, w) ==
    IF SumOver(w, 1) = 0 THEN Raise(S, "ZeroDivisionError")
    ELSE Return(S, [kind |-> "weights", num |-> w, den |-> SumOver(w, 1)])

\* the weights an evaluator built with the defaults holds
self_weights == [kind |-> "weights", num |-> default_weights,
                 den |-> SumOver(default_weights, 1)]

RECURSIVE WeightedSum(_, _, _)
\* sum(getattr(factors, factor) * weight for factor, weight in weights)
WeightedSum(factors, weights, i) ==
    IF i > Len(FactorSeq) THEN 0
    ELSE factors[FactorSeq[i]] * weights.num[FactorSeq[i]]
         + WeightedSum(factors, weights, i + 1)
overall_score(factors, weights) ==
    WeightedSum(factors, weights, 1) \div weights.den

\* the factor values the evaluators compute for block k
EvalFactors(k) == [f \in FactorNames |-> EvalScore(k)]

\* the hard overrides of _make_decision
factual_floor == 30
semantic_floor == 20
\* metadata.get("keep_threshold", 0.7), metadata.get("review_threshold", 0.4)
DefaultThresholds == [keep_threshold |-> keep_threshold,
                      review_threshold |-> decision_review_threshold]

\* the attribute of Decision that _make_decision looks up
_make_decision_name(overall, factors, metadata) ==
    IF factors.factual_consistency < factual_floor THEN "REMOVE"
    ELSE IF factors.semantic_alignment < semantic_floor THEN "REMOVE"
    ELSE IF overall >= metadata.keep_threshold THEN "KEEP"
    ELSE IF overall >= metadata.review_threshold THEN "REVIEW"
    ELSE "REMOVE"

\* Decision.<name>: the member, AttributeError when the enum has none
DecisionAttr(S, name) ==
    IF name \in Decision THEN Return(S, [kind |-> "decision", value |-> name])
    ELSE Raise(S, "AttributeError")

\* return Decision.REMOVE / Decision.KEEP / Decision.REVIEW
_make_decision(S, overall, factors, metadata) ==
    DecisionAttr(S, _make_decision_name(overall, factors, metadata))

RelevanceScore(overall, factors, decision) ==
    [kind |-> "score", overall_score |-> overall, factors |-> factors,
     decision |-> decision]

\* BaseRelevanceEvaluator.evaluate: the five factor methods read the
\* block, then the weighted sum, then _make_decision
base_evaluate(S, block, factors) ==
    IF \E a \in evaluator_reads : ~HasAttr(a) THEN Raise(S, "AttributeError")
    ELSE Then(_make_decision(S, overall_score(factors, self_weights),
                             factors, DefaultThresholds),
              LAMBDA S1 :
                Return(S1, RelevanceScore(
                    overall_score(factors, self_weights), factors,
                    S1.ret.value)))

\* the factors of the heuristic evaluator
heuristic_evaluate(S, block, context) ==
    base_evaluate(S, block, EvalFactors(block.block_id))

\* the defaults the model-based evaluator falls back to when a provider
\* call raises (its bare excepts): 0.6 for goal_contribution, 0.8 for
\* factual_consistency
goal_default == 60
factual_default == 80
LlmFactors(k, context, llm_ok) ==
    IF llm_ok \/ context = <<>> THEN EvalFactors(k)
    ELSE [EvalFactors(k) EXCEPT !.goal_contribution = goal_default,
                                !.factual_consistency = factual_default]
llm_evaluate(S, block, context, llm_ok) ==
    base_evaluate(S, block, LlmFactors(block.block_id, context, llm_ok))

\* CompositeRelevanceEvaluator: llm_weight 0.7, heuristic_weight 0.3
llm_weight == 70
heuristic_weight == 30
use_llm == TRUE
uncertain_below == 60
uncertain_low == 40
uncertain_high == 70

CombinedFactors(heuristic_score, llm_score) ==
    [f \in FactorNames |->
        (heuristic_score.factors[f] * heuristic_weight
         + llm_score.factors[f] * llm_weight)
        \div (heuristic_weight + llm_weight)]
Combined(heuristic_score, llm_score, decision) ==
    RelevanceScore((heuristic_score.overall_score * heuristic_weight
                    + llm_score.overall_score * llm_weight)
                   \div (heuristic_weight + llm_weight),
                   CombinedFactors(heuristic_score, llm_score), decision)

\* _combine_scores: the weighted blend, then the decision by comparing the
\* two decisions with Decision.REMOVE, Decision.REVIEW, Decision.KEEP
_combine_scores(S, heuristic_score, llm_score) ==
    IF "REMOVE" \notin Decision THEN Raise(S, "AttributeError")
    ELSE IF heuristic_score.decision = "REMOVE"
            \/ llm_score.decision = "REMOVE"
    THEN Return(S, Combined(heuristic_score, llm_score, "REMOVE"))
    ELSE IF "REVIEW" \notin Decision THEN Raise(S, "AttributeError")
    ELSE IF heuristic_score.decision = "REVIEW"
            \/ llm_score.decision = "REVIEW"
    THEN Return(S, Combined(heuristic_score, llm_score, "REVIEW"))
    ELSE IF "KEEP" \notin Decision THEN Raise(S, "AttributeError")
    ELSE Return(S, Combined(heuristic_score, llm_score, "KEEP"))

\* try: llm_score = llm_evaluator.evaluate(...); return _combine_scores(...)
\* except Exception: return heuristic_score
TryLlm(H, L) ==
    IF ~Ok(L) THEN H
    ELSE IF Ok(_combine_scores(L, H.ret, L.ret))
    THEN _combine_scores(L, H.ret, L.ret)
    ELSE Return(L, H.ret)

\* the heuristic score is uncertain enough to ask the model
UseLlm(heuristic_score) ==
    /\ use_llm
    /\ \/ heuristic_score.overall_score < uncertain_below
       \/ /\ heuristic_score.overall_score > uncertain_low
          /\ heuristic_score.overall_score < uncertain_high

\* CompositeRelevanceEvaluator.evaluate: the heuristic evaluation first,
\* outside the try
evaluate(S, block, context, llm_ok) ==
    Then(heuristic_evaluate(S, block, context),
         LAMBDA H :
           IF UseLlm(H.ret)
           THEN TryLlm(H, llm_evaluate(H, block, context, llm_ok))
           ELSE H)

\* evaluate_block: evaluate, then compare the decision with Decision.REMOVE
evaluate_block(S, block, context, llm_ok) ==
    Then(evaluate(S, block, context, llm_ok),
         LAMBDA S1 :
           IF "REMOVE" \notin Decision THEN Raise(S1, "AttributeError")
           ELSE Return(S1, [block |-> block,
                            decision |-> S1.ret.decision,
                            overall_score |-> S1.ret.overall_score]))

List(items) == [kind |-> "list", items |-> items]

RECURSIVE evaluate_conversation(_, _, _, _, _)
\* for i, block in enumerate(blocks):
\*   context = blocks[max(0, i-5):i] + blocks[i+1:min(len(blocks), i+6)]
\*   results.append((block, score))
evaluate_conversation(S, blocks, i, results, llm_ok) ==
    IF i > Len(blocks) THEN Return(S, List(results))
    ELSE Then(evaluate_block(S, blocks[i],
                             SubSeq(blocks, Max(1, i - 5), i - 1)
                             \o SubSeq(blocks, i + 1,
                                       Min(Len(blocks), i + 5)), llm_ok),
              LAMBDA S1 : evaluate_conversation(S1, blocks, i + 1,
                                                Append(results, S1.ret),
                                                llm_ok))

RECURSIVE RetrieveBlocks(_, _, _, _, _)
\* for block_id in recent_ids: retrieve_block; if block: blocks.append
RetrieveBlocks(S, recent_ids, i, session_id, blocks) ==
    IF i > Len(recent_ids) THEN Return(S, List(blocks))
    ELSE Then(retrieve_block(S, recent_ids[i], session_id, 0),
              LAMBDA S1 : RetrieveBlocks(S1, recent_ids, i + 1, session_id,
                                         IF S1.ret = None THEN blocks
                                         ELSE Append(blocks, S1.ret)))

\* MemoryStorageManager.optimize_storage: the age of block k in hours, as
\* now - block.created_at gives it
AgeOf(k) == <<1, 30, 80, 100>>[((k - 1) % 4) + 1]
hot_max_age == 24
warm_max_age == 72
optimize_access_count == 10
NoMigrations == [kind |-> "migrations", promoted |-> 0, demoted |-> 0,
                 removed |-> 0]
\* self._tier_assignments.get(block.block_id, StorageTier.HOT)
CurrentTier(S, k) == IF S.ta[k] = NoTier THEN "hot" ELSE S.ta[k]

RECURSIVE OptimizeLoop(_, _, _, _)
\* for block in all_blocks: the first branch that applies, and its count,
\* whatever delete_block or migrate_tier returned
OptimizeLoop(S, all_blocks, i, migrations) ==
    IF i > Len(all_blocks) THEN Return(S, migrations)
    ELSE IF ~HasAttr("created_at") THEN Raise(S, "AttributeError")
    \* None < self.relevance_threshold
    ELSE IF all_blocks[i].relevance_score = NoScore THEN Raise(S, "TypeError")
    ELSE IF all_blocks[i].relevance_score < relevance_threshold
    THEN Then(delete_block(S, all_blocks[i].block_id, NoSession),
              LAMBDA S1 : OptimizeLoop(S1, all_blocks, i + 1,
                            [migrations EXCEPT !.removed = @ + 1]))
    ELSE IF AgeOf(all_blocks[i].block_id) > hot_max_age
            /\ CurrentTier(S, all_blocks[i].block_id) = "hot"
    THEN Then(migrate_tier(S, all_blocks[i].block_id, "warm", NoSession, 0),
              LAMBDA S1 : OptimizeLoop(S1, all_blocks, i + 1,
                            [migrations EXCEPT !.demoted = @ + 1]))
    ELSE IF AgeOf(all_blocks[i].block_id) > warm_max_age
            /\ CurrentTier(S, all_blocks[i].block_id) = "warm"
    THEN Then(migrate_tier(S, all_blocks[i].block_id, "cold", NoSession, 0),
              LAMBDA S1 : OptimizeLoop(S1, all_blocks, i + 1,
                            [migrations EXCEPT !.demoted = @ + 1]))
    ELSE IF all_blocks[i].access_count > optimize_access_count
            /\ CurrentTier(S, all_blocks[i].block_id) # "hot"
    THEN Then(migrate_tier(S, all_blocks[i].block_id, "hot", NoSession, 0),
              LAMBDA S1 : OptimizeLoop(S1, all_blocks, i + 1,
                            [migrations EXCEPT !.promoted = @ + 1]))
    ELSE OptimizeLoop(S, all_blocks, i + 1, migrations)

\* all_blocks: every listed block that retrieve_block returns; then the loop
optimize_storage(S) ==
    Then(RetrieveBlocks(S, list_blocks(S, NoTier, NoSession), 1, NoSession,
                        <<>>),
         LAMBDA S1 : OptimizeLoop(S1, S1.ret.items, 1, NoMigrations))

\* block_ids[-window_size:] if len(block_ids) > window_size else block_ids
Recent(block_ids, window_size) ==
    IF Len(block_ids) > window_size
    THEN SubSeq(block_ids, Len(block_ids) - window_size + 1, Len(block_ids))
    ELSE block_ids

\* an analysis that deletes the first block it retrieved
analyze_conversation_deleting(S, session_id, window_size, llm_ok) ==
    Then(RetrieveBlocks(S, Recent(list_blocks(S, NoTier, session_id),
                                  window_size), 1, session_id, <<>>),
         LAMBDA S1 :
           IF S1.ret.items = <<>> THEN Return(S1, List(<<>>))
           ELSE Then(delete_block(S1, S1.ret.items[1].block_id, session_id),
                     LAMBDA S2 : Return(S2, List(<<>>))))

\* block_ids[-window_size:], retrieve_block for each, evaluate_conversation,
\* keep the pairs scored below review_threshold
analyze_conversation(S, session_id, window_size, llm_ok) ==
    Then(RetrieveBlocks(S, Recent(list_blocks(S, NoTier, session_id),
                                  window_size), 1, session_id, <<>>),
         LAMBDA S1 :
           IF S1.ret.items = <<>> THEN Return(S1, List(<<>>))
           ELSE Then(evaluate_conversation(S1, S1.ret.items, 1, <<>>, llm_ok),
                     LAMBDA S2 :
                       Return(S2, List(SelectSeq(S2.ret.items,
                           LAMBDA e : e.overall_score < review_threshold)))))

\* a trim that keeps the first history_limit entries
ExtendHistoryOldest(history, corrections) ==
    LET h == history \o corrections
    IN  IF corrections = <<>> THEN history
        ELSE IF Len(h) > history_limit
        THEN SubSeq(h, 1, history_limit)
        ELSE h

\* the last history_limit entries of the history extended by corrections
ExtendHistory(history, corrections) ==
    LET h == history \o corrections
    IN  IF corrections = <<>> THEN history
        ELSE IF Len(h) > history_limit
        THEN SubSeq(h, Len(h) - history_limit + 1, Len(h))
        ELSE h

correct_conversation(S, session_id, problematic_blocks, llm_ok) ==
    CorrectLoop([st |-> S, session_id |-> session_id, corrections |-> <<>>,
                 correction_count |-> 0],
                problematic_blocks, 1, llm_ok)

(***************************************************************************)
(* MemoryAgent and the corrector's background loop                         *)
(***************************************************************************)
\* the session whose name starts the ids process_message mints
\* (f"{session_id}_{uuid}"), which is also block_id.split("_")[0]
SessionOf(k) == IF k % 2 = 1 THEN "s1" ELSE "s2"

default_window_size == 10
check_window_size == 5
\* the windows callers of analyze_conversation ask for
WindowSizes == {1, check_window_size, default_window_size}
context_blocks == 20
user_relevance == 100
assistant_relevance == 90

\* for block_id in block_ids[-20:]: retrieve_block(block_id, session_id)
_build_context(S, session_id) ==
    RetrieveBlocks(S, Recent(list_blocks(S, "hot", session_id),
                             context_blocks), 1, session_id, <<>>)

\* process_message up to the provider call: the user block is stored at Hot
\* and the context is read back from memory
\* sequence_num = len(await self._storage_manager.list_blocks(session_id))
sequence_num(S, session_id) == Len(list_blocks(S, NoTier, session_id))

\* the block the agent builds: ConversationBlock(..., sequence_number=n, ...)
AgentBlock(S, session_id, k, score) ==
    [sequence_number |-> sequence_num(S, session_id)]
        @@ NewBlock(k, score, ContentOf(k), NoMetadata)

process_message_user(S, session_id, k) ==
    Then(store_block(S, AgentBlock(S, session_id, k, user_relevance),
                     "hot", session_id),
         LAMBDA S1 : _build_context(S1, session_id))

\* process_message after the provider call: the assistant block is stored
process_message_assistant(S, session_id, k) ==
    store_block(S, AgentBlock(S, session_id, k, assistant_relevance),
                "hot", session_id)

\* W carries the storage state st, the history hist, the entries recorded
\* rec, the sessions analyze_conversation was called for (visited) and the
\* sessions whose analysis and correction returned (completed)
AfterCorrect(W, R, session_id) ==
    IF ~Ok(R.st) THEN [W EXCEPT !.st = R.st]
    ELSE [W EXCEPT !.st = R.st,
                   !.hist = ExtendHistory(@, R.corrections),
                   !.rec = @ \o R.corrections,
                   !.completed = Append(@, session_id)]

AfterAnalyze(W, A, session_id, llm_ok) ==
    IF ~Ok(A) THEN [W EXCEPT !.st = A]
    ELSE IF A.ret.items = <<>>
    THEN [W EXCEPT !.st = A, !.completed = Append(@, session_id)]
    ELSE AfterCorrect(W, correct_conversation(A, session_id, A.ret.items,
                                              llm_ok), session_id)

\* problematic = analyze_conversation(...); if problematic:
\* correct_conversation(session_id, problematic)
AnalyzeThenCorrect(W, session_id, window_size, llm_ok) ==
    AfterAnalyze([W EXCEPT !.visited = Append(@, session_id)],
                 analyze_conversation(W.st, session_id, window_size, llm_ok),
                 session_id, llm_ok)

RECURSIVE SweepLoop(_, _, _, _)
\* for session_id in sessions, inside the one try of the loop body: an
\* exception leaves the for loop
SweepLoop(W, order, i, llm_ok) ==
    IF i > Len(order) \/ ~Ok(W.st) THEN W
    ELSE SweepLoop(AnalyzeThenCorrect(W, order[i], default_window_size,
                                      llm_ok), order, i + 1, llm_ok)

\* the sessions of a sweep: the prefixes of the ids list_blocks() returns
SweepSessions(S) ==
    {SessionOf(list_blocks(S, NoTier, NoSession)[i]) :
        i \in DOMAIN list_blocks(S, NoTier, NoSession)}

\* the orders in which a Python set of sessions may be iterated
Orders(sessions) ==
    {q \in [1..Cardinality(sessions) -> sessions] :
        \A i, j \in DOMAIN q : i # j => q[i] # q[j]}

\* a loop without its except clause
CaughtNothing(exc) == FALSE

\* except Exception: every exception but the cancellation of the task
Caught(exc) == exc # "CancelledError"

(***************************************************************************)
(* State.  The store's three tiers and two indexes, the manager's tier     *)
(* assignments and the corrector's history; and, for stating the           *)
(* properties, what the last call was and how it ended (last), the ids a   *)
(* caller stored and has neither deleted nor seen evicted                  *)
(* from Cold (stored), the ids the Cold tier dropped (evicted), and the    *)
(* number of retrievals of an id since it was stored at Warm (warm_hits),  *)
(* and every correction ever recorded in the history, in order (recorded). *)
(* The corrector's flag and task (_active, _correction_task: None, asleep  *)
(* for 60 s before a sweep, asleep for 5 s after an exception, or done),   *)
(* the agent's flag (_initialized), for each session whether a             *)
(* process_message call is waiting for the provider (inflight) and how     *)
(* many _check_for_corrections tasks are pending (checks); trace describes *)
(* the last correction activity.  chains and message_index are the fields  *)
(* of a MessageChain; orphan_tasks counts the live tasks start() created    *)
(* that _correction_task no longer refers to.                              *)
(***************************************************************************)
(***************************************************************************)
(* MessageChain: chains maps a session id to its list of messages, in the  *)
(* order the sessions were first written; message_index maps a message id  *)
(* to a message.  Every method runs under the chain's lock: one step.      *)
(***************************************************************************)
MsgIds == 1..NumMsgIds
\* the role of the messages callers build, one per id
RoleOf(id) == IF id % 2 = 0 THEN "assistant" ELSE "user"
\* the messages callers hand in: an id, a timestamp, a role
MessagesIn ==
    {[id |-> i, timestamp |-> t, role |-> RoleOf(i)] :
        i \in MsgIds, t \in 1..MaxTime}

\* self.chains.get(session_id, [])
ChainOf(C, session_id) ==
    IF OdHas(C.chains, session_id) THEN OdValue(C.chains, session_id)
    ELSE <<>>
\* message in chain: equality of the models' fields
InChain(msg, chain) == \E i \in DOMAIN chain : chain[i] = msg
\* chain.index(message): the first equal element
IndexIn(msg, chain) ==
    CHOOSE i \in DOMAIN chain :
        chain[i] = msg /\ \A j \in 1..(i - 1) : chain[j] # msg
\* chain.remove(message)
RemoveFirst(chain, msg) ==
    SubSeq(chain, 1, IndexIn(msg, chain) - 1)
    \o SubSeq(chain, IndexIn(msg, chain) + 1, Len(chain))
\* self.message_index[id] = msg
IndexSet(index, id, msg) ==
    [i \in DOMAIN index \cup {id} |-> IF i = id THEN msg ELSE index[i]]
\* del self.message_index[id], for each id of ids that is indexed
IndexDel(index, ids) == [i \in DOMAIN index \ ids |-> index[i]]

\* self.chains[session_id].append(msg); self.message_index[msg.id] = msg
add_message(C, message, session_id) ==
    [chains |-> OdSet(C.chains, session_id,
                      Append(ChainOf(C, session_id), message)),
     message_index |-> IndexSet(C.message_index, message.id, message),
     ret |-> "id"]

RECURSIVE RemoveFromChains(_, _, _)
\* for session_id, chain in self.chains.items():
\*     if message in chain: chain.remove(message); break
RemoveFromChains(chains_, message, i) ==
    IF i > Len(chains_) THEN chains_
    ELSE IF InChain(message, chains_[i].value)
    THEN [chains_ EXCEPT ![i].value = RemoveFirst(@, message)]
    ELSE RemoveFromChains(chains_, message, i + 1)

remove_message(C, message_id) ==
    IF message_id \notin DOMAIN C.message_index THEN [C EXCEPT !.ret = "False"]
    ELSE [chains |-> RemoveFromChains(C.chains,
                                      C.message_index[message_id], 1),
          message_index |-> IndexDel(C.message_index, {message_id}),
          ret |-> "True"]

\* the ids of chain[from..]
IdsFrom(chain, from) == {chain[j].id : j \in from..Len(chain)}

\* a rollback that truncates the list and leaves the index as it was
rollback_to_keep_index(C, message_id, session_id) ==
    IF message_id \notin DOMAIN C.message_index THEN [C EXCEPT !.ret = "False"]
    ELSE IF ~InChain(C.message_index[message_id], ChainOf(C, session_id))
    THEN [C EXCEPT !.ret = "False"]
    ELSE [chains |->
            OdSet(C.chains, session_id,
                  SubSeq(ChainOf(C, session_id), 1,
                         IndexIn(C.message_index[message_id],
                                 ChainOf(C, session_id)))),
          message_index |-> C.message_index,
          ret |-> "True"]

\* rollback_to: chain[:target_index + 1] is kept, the ids of the rest are
\* deleted from the index
rollback_to(C, message_id, session_id) ==
    IF message_id \notin DOMAIN C.message_index THEN [C EXCEPT !.ret = "False"]
    ELSE IF ~InChain(C.message_index[message_id], ChainOf(C, session_id))
    THEN [C EXCEPT !.ret = "False"]
    ELSE [chains |->
            OdSet(C.chains, session_id,
                  SubSeq(ChainOf(C, session_id), 1,
                         IndexIn(C.message_index[message_id],
                                 ChainOf(C, session_id)))),
          message_index |->
            IndexDel(C.message_index,
                     IdsFrom(ChainOf(C, session_id),
                             IndexIn(C.message_index[message_id],
                                     ChainOf(C, session_id)) + 1)),
          ret |-> "True"]

\* chain.insert(target_index + 1, msg)
InsertAt(chain, i, msg) ==
    SubSeq(chain, 1, i) \o <<msg>> \o SubSeq(chain, i + 1, Len(chain))

insert_message_after(C, message_id, new_message, session_id) ==
    IF message_id \notin DOMAIN C.message_index THEN [C EXCEPT !.ret = "False"]
    ELSE IF ~InChain(C.message_index[message_id], ChainOf(C, session_id))
    THEN [C EXCEPT !.ret = "False"]
    ELSE [chains |->
            OdSet(C.chains, session_id,
                  InsertAt(ChainOf(C, session_id),
                           IndexIn(C.message_index[message_id],
                                   ChainOf(C, session_id)),
                           new_message)),
          message_index |-> IndexSet(C.message_index, new_message.id,
                                     new_message),
          ret |-> "True"]

\* chain[index] = msg; del self.message_index[message_id];
\* self.message_index[msg.id] = msg
replace_message(C, message_id, new_message, session_id) ==
    IF message_id \notin DOMAIN C.message_index THEN [C EXCEPT !.ret = "False"]
    ELSE IF ~InChain(C.message_index[message_id], ChainOf(C, session_id))
    THEN [C EXCEPT !.ret = "False"]
    ELSE [chains |->
            OdSet(C.chains, session_id,
                  [ChainOf(C, session_id) EXCEPT
                     ![IndexIn(C.message_index[message_id],
                               ChainOf(C, session_id))] = new_message]),
          message_index |->
            IndexSet(IndexDel(C.message_index, {message_id}),
                     new_message.id, new_message),
          ret |-> "True"]

\* validate_chain: timestamps in order, every message indexed, the first
\* message from user or system
validate_chain(C, session_id) ==
    /\ \A i \in 2..Len(ChainOf(C, session_id)) :
         ChainOf(C, session_id)[i].timestamp
           >= ChainOf(C, session_id)[i - 1].timestamp
    /\ \A i \in DOMAIN ChainOf(C, session_id) :
         ChainOf(C, session_id)[i].id \in DOMAIN C.message_index
    /\ ChainOf(C, session_id) # <<>>
       => ChainOf(C, session_id)[1].role \in {"user", "system"}

VARIABLES _hot_store, _warm_store, _cold_store, _tier_index, _session_index,
          _tier_assignments, _migration_stats, _correction_history,
          last, stored, evicted, warm_hits, recorded,
          _active, _correction_task, _initialized, inflight, checks, trace,
          chains, message_index, orphan_tasks

storeVars == <<_hot_store, _warm_store, _cold_store, _tier_index,
               _session_index, _tier_assignments, _migration_stats>>
correctorVars == <<_correction_history, recorded>>
agentVars == <<_active, _correction_task, _initialized, inflight, checks,
               trace>>
vars == <<_hot_store, _warm_store, _cold_store, _tier_index, _session_index,
          _tier_assignments, _migration_stats, _correction_history,
          last, stored, evicted, warm_hits, recorded,
          _active, _correction_task, _initialized, inflight, checks, trace,
          chains, message_index, orphan_tasks>>
chainVars == <<chains, message_index>>

St == [hot |-> _hot_store, warm |-> _warm_store, cold |-> _cold_store,
       tidx |-> _tier_index, sess |-> _session_index,
       ta |-> _tier_assignments, stats |-> _migration_stats,
       evicted |-> {}, exc |-> "none", ret |-> None]

Commit(S) ==
    /\ _hot_store' = S.hot
    /\ _warm_store' = S.warm
    /\ _cold_store' = S.cold
    /\ _tier_index' = S.tidx
    /\ _session_index' = S.sess
    /\ _tier_assignments' = S.ta
    /\ _migration_stats' = S.stats

NoCall == [op |-> "none", key |-> 0, tier |-> NoTier, exc |-> "none",
           ret |-> "None", args |-> <<>>, llm_ok |-> FALSE, returned |-> <<>>]
Call(op, key, tier, S) ==
    [op |-> op, key |-> key, tier |-> tier, exc |-> S.exc,
     ret |-> IF ~Ok(S) THEN "raised"
             ELSE IF S.ret.kind = "bool"
                  THEN (IF S.ret.value THEN "True" ELSE "False")
                  ELSE S.ret.kind,
     args |-> <<>>, llm_ok |-> FALSE, returned |-> <<>>]

NoTrace == [op |-> "none", session |-> NoSession, window |-> 0,
            initialized |-> FALSE, enumerated |-> {}, with_blocks |-> {},
            listed |-> <<>>, visited |-> <<>>, completed |-> <<>>,
            exc |-> "none", returned |-> <<>>]

Init ==
    /\ _hot_store = <<>>
    /\ _warm_store = <<>>
    /\ _cold_store = <<>>
    /\ _tier_index = <<>>
    /\ _session_index = [s \in AllSessions |-> {}]
    /\ _tier_assignments = [k \in AllIds |-> NoTier]
    /\ _migration_stats = [promotions |-> 0, demotions |-> 0, evictions |-> 0]
    /\ _correction_history = <<>>
    /\ last = NoCall
    /\ stored = {}
    /\ evicted = {}
    /\ warm_hits = [k \in Keys |-> -1]
    /\ recorded = <<>>
    /\ _active = FALSE
    /\ _correction_task = "None"
    /\ _initialized = FALSE
    /\ inflight = [s \in SessionIds |-> "idle"]
    /\ checks = [s \in SessionIds |-> 0]
    /\ trace = NoTrace
    /\ chains = <<>>
    /\ message_index = <<>>
    /\ orphan_tasks = 0

\* the access counts a call leaves stay within the bound of the model
AccessBounded(S) ==
    /\ \A i \in DOMAIN S.hot : S.hot[i].value.access_count <= MaxAccess
    /\ S.stats.promotions <= MaxStat
    /\ S.stats.demotions <= MaxStat
    /\ S.stats.evictions <= MaxStat

(***************************************************************************)
(* The manager's public calls, each one atomic step: S is the state the    *)
(* call leaves, with its exception or return value.                        *)
(***************************************************************************)
Done(op, key, tier, S) ==
    /\ AccessBounded(S)
    /\ Commit(S)
    /\ last' = Call(op, key, tier, S)
    /\ stored' = (CASE op = "store_block" /\ Ok(S) -> stored \cup {key}
                    [] op = "delete_block" /\ S.ret = True -> stored \ {key}
                    [] OTHER -> stored) \ S.evicted
    /\ evicted' = (IF op = "store_block" /\ Ok(S)
                   THEN evicted \ {key} ELSE evicted) \cup S.evicted

StoreBlock(block_id, tier) ==
    Done("store_block", block_id, tier,
         store_block(St, NewBlock(block_id, ScoreOf(block_id),
                                  ContentOf(block_id), NoMetadata), tier,
                     NoSession))

RetrieveBlock(block_id) ==
    Done("retrieve_block", block_id, NoTier,
         retrieve_block(St, block_id, NoSession, 0))

DeleteBlock(block_id) ==
    Done("delete_block", block_id, NoTier,
         delete_block(St, block_id, NoSession))

MigrateTier(block_id, to_tier) ==
    Done("migrate_tier", block_id, to_tier,
         migrate_tier(St, block_id, to_tier, NoSession, 0))

\* optimize_storage(): the call record keeps the counts it returned
OptimizeStorage ==
    /\ AccessBounded(optimize_storage(St))
    /\ Commit(optimize_storage(St))
    /\ last' = [Call("optimize_storage", 0, NoTier, optimize_storage(St))
                  EXCEPT !.returned = IF Ok(optimize_storage(St))
                                      THEN <<optimize_storage(St).ret>>
                                      ELSE <<>>]
    /\ stored' = {k \in stored :
                     ~(/\ optimize_storage(St).ta[k] = NoTier
                       /\ _tier_assignments[k] # NoTier
                       /\ ScoreOf(k) # NoScore
                       /\ ScoreOf(k) < relevance_threshold)}
                  \ optimize_storage(St).evicted
    /\ evicted' = evicted \cup optimize_storage(St).evicted

\* the lists of distinct ids a caller passes to correct_conversation
KeySeqs ==
    UNION {{q \in [1..n -> Keys] : \A i, j \in 1..n : i # j => q[i] # q[j]} :
           n \in 0..NumKeys}

\* R is what the loop of correct_conversation leaves
DoneCorrect(problematic_blocks, llm_ok, R) ==
    /\ AccessBounded(R.st)
    /\ Commit(R.st)
    /\ _correction_history' =
          IF Ok(R.st) THEN ExtendHistory(_correction_history, R.corrections)
          ELSE _correction_history
    /\ recorded' = IF Ok(R.st) THEN recorded \o R.corrections ELSE recorded
    /\ last' = [op |-> "correct_conversation", key |-> 0, tier |-> NoTier,
                exc |-> R.st.exc,
                ret |-> IF Ok(R.st) THEN "list" ELSE "raised",
                args |-> problematic_blocks, llm_ok |-> llm_ok,
                returned |-> IF Ok(R.st) THEN R.corrections ELSE <<>>]
    /\ stored' = {k \in stored : OdHas(R.st.tidx, k) \/ ~OdHas(_tier_index, k)}
    /\ evicted' = evicted \cup R.st.evicted

CorrectConversation(ks, d, llm_ok) ==
    DoneCorrect(ProblematicBlocks(ks, d), llm_ok,
                correct_conversation(St, "default", ProblematicBlocks(ks, d),
                                     llm_ok))

Next ==
    \/ \E k \in Keys, t \in Tiers \cup {NoTier} :
          StoreBlock(k, t) /\ UNCHANGED <<correctorVars, warm_hits, agentVars, chainVars, orphan_tasks>>
    \/ \E k \in Keys :
          RetrieveBlock(k) /\ UNCHANGED <<correctorVars, warm_hits, agentVars, chainVars, orphan_tasks>>
    \/ \E k \in Keys :
          DeleteBlock(k) /\ UNCHANGED <<correctorVars, warm_hits, agentVars, chainVars, orphan_tasks>>
    \/ \E k \in Keys, t \in Tiers :
          MigrateTier(k, t) /\ UNCHANGED <<correctorVars, warm_hits, agentVars, chainVars, orphan_tasks>>

Spec == Init /\ [][Next]_vars

\* the manager's public calls with the optimisation sweep among them
NextManager ==
    \/ \E k \in Keys, t \in Tiers \cup {NoTier} :
          StoreBlock(k, t) /\ UNCHANGED <<correctorVars, warm_hits, agentVars, chainVars, orphan_tasks>>
    \/ \E k \in Keys :
          RetrieveBlock(k) /\ UNCHANGED <<correctorVars, warm_hits, agentVars, chainVars, orphan_tasks>>
    \/ \E k \in Keys :
          DeleteBlock(k) /\ UNCHANGED <<correctorVars, warm_hits, agentVars, chainVars, orphan_tasks>>
    \/ \E k \in Keys, t \in Tiers :
          MigrateTier(k, t) /\ UNCHANGED <<correctorVars, warm_hits, agentVars, chainVars, orphan_tasks>>
    \/ OptimizeStorage /\ UNCHANGED <<correctorVars, warm_hits, agentVars, chainVars, orphan_tasks>>

SpecManager == Init /\ [][NextManager]_vars

\* The corrector working on a store that callers fill at Hot, as the agent
\* does.
NextCorrector ==
    \/ \E k \in Keys :
          StoreBlock(k, "hot") /\ UNCHANGED <<correctorVars, warm_hits, agentVars, chainVars, orphan_tasks>>
    \/ \E k \in Keys :
          DeleteBlock(k) /\ UNCHANGED <<correctorVars, warm_hits, agentVars, chainVars, orphan_tasks>>
    \/ \E ks \in KeySeqs, d \in Decision, llm_ok \in BOOLEAN :
          CorrectConversation(ks, d, llm_ok)
          /\ UNCHANGED <<warm_hits, agentVars, chainVars, orphan_tasks>>

SpecCorrector == Init /\ [][NextCorrector]_vars

\* Blocks stored at Warm and read back; warm_hits[k] counts the retrievals
\* of k since store_block(k, WARM), up to the sixth.
NextWarm ==
    \/ \E k \in Keys :
          /\ StoreBlock(k, "warm")
          /\ warm_hits' = [warm_hits EXCEPT ![k] = 0]
          /\ UNCHANGED <<correctorVars, agentVars, chainVars, orphan_tasks>>
    \/ \E k \in Keys :
          /\ RetrieveBlock(k)
          /\ warm_hits' = [warm_hits EXCEPT ![k] =
                              IF @ \in 0..promotion_access_count
                              THEN @ + 1 ELSE @]
          /\ UNCHANGED <<correctorVars, agentVars, chainVars, orphan_tasks>>
    \/ \E k \in Keys :
          /\ DeleteBlock(k)
          /\ warm_hits' = [warm_hits EXCEPT ![k] = -1]
          /\ UNCHANGED <<correctorVars, agentVars, chainVars, orphan_tasks>>

SpecWarm == Init /\ [][NextWarm]_vars

\* The end of correct_conversation, where the corrections of one cycle are
\* recorded: n is the number of corrections the cycle made, each one a
\* removal entry numbered by its place among all entries recorded.
CycleCorrections(n) ==
    [i \in 1..n |->
        [type |-> "removal",
         block_id |-> ((Len(recorded) + i - 1) % NumKeys) + 1,
         timestamp |-> Len(recorded) + i]]

RecordCorrections(n) ==
    /\ Len(recorded) + n <= MaxRecorded
    /\ _correction_history' =
          ExtendHistory(_correction_history, CycleCorrections(n))
    /\ recorded' = recorded \o CycleCorrections(n)
    /\ UNCHANGED <<storeVars, last, stored, evicted, warm_hits, agentVars, chainVars, orphan_tasks>>

NextHistory == \E n \in 0..max_corrections_per_cycle : RecordCorrections(n)

SpecHistory == Init /\ [][NextHistory]_vars

(***************************************************************************)
(* The agent: process_message in its two halves around the provider call,  *)
(* the per-message correction check it leaves behind, the corrector's      *)
(* background loop, a direct analyze_conversation call, and shutdown.      *)
(***************************************************************************)
\* the ids of session s the store holds in some tier
HeldIn(s) ==
    {k \in _session_index[s] :
        OdHas(_hot_store, k) \/ OdHas(_warm_store, k) \/ OdHas(_cold_store, k)}

W0 == [st |-> St, hist |-> _correction_history, rec |-> recorded,
       visited |-> <<>>, completed |-> <<>>]

\* what a step of the agent leaves: the storage state S and the history
AgentDone(op, S, hist, rec, newly) ==
    /\ AccessBounded(S)
    /\ Commit(S)
    /\ _correction_history' = hist
    /\ recorded' = rec
    /\ last' = [NoCall EXCEPT !.op = op, !.exc = S.exc]
    /\ stored' = {k \in stored \cup newly :
                     OdHas(S.tidx, k) \/ ~OdHas(_tier_index, k)}
    /\ evicted' = evicted \cup S.evicted
    /\ UNCHANGED <<warm_hits, chainVars, orphan_tasks>>

\* a fresh id of session s
Fresh(s, k) == SessionOf(k) = s /\ ~OdHas(_tier_index, k)

\* initialize(), when process_message finds the agent not initialized
Initialize ==
    IF _initialized
    THEN UNCHANGED <<_active, _correction_task, _initialized>>
    ELSE /\ _active' = TRUE
         /\ _correction_task' = IF enable_auto_correction THEN "sleep60"
                                 ELSE _correction_task
         /\ _initialized' = TRUE

DoneUser(s, k, S) ==
    /\ AgentDone("process_message", S, _correction_history, recorded,
                 IF Ok(S) THEN {k} ELSE {})
    /\ inflight' = [inflight EXCEPT ![s] = IF Ok(S) THEN "generating"
                                            ELSE "idle"]

ProcessMessageUser(s, k) ==
    /\ inflight[s] = "idle"
    /\ Fresh(s, k)
    /\ Initialize
    /\ DoneUser(s, k, process_message_user(St, s, k))
    /\ UNCHANGED <<checks, trace>>

DoneAssistant(s, k, S) ==
    /\ AgentDone("process_message", S, _correction_history, recorded,
                 IF Ok(S) THEN {k} ELSE {})
    /\ Ok(S) => checks[s] < MaxChecks
    \* asyncio.create_task(self._check_for_corrections(session_id))
    /\ checks' = [checks EXCEPT ![s] = IF Ok(S) THEN @ + 1 ELSE @]

ProcessMessageAssistant(s, k) ==
    /\ inflight[s] = "generating"
    /\ Fresh(s, k)
    /\ DoneAssistant(s, k, process_message_assistant(St, s, k))
    /\ inflight' = [inflight EXCEPT ![s] = "idle"]
    /\ UNCHANGED <<_active, _correction_task, _initialized, trace>>

Ids(items) == [i \in DOMAIN items |-> items[i].block.block_id]

DoneAnalyze(op, s, window_size, W) ==
    /\ AgentDone(op, W.st, W.hist, W.rec, {})
    /\ trace' = [NoTrace EXCEPT
                    !.op = op, !.session = s, !.window = window_size,
                    !.initialized = _initialized,
                    !.listed = list_blocks(St, NoTier, s),
                    !.visited = W.visited, !.completed = W.completed,
                    !.exc = W.st.exc,
                    !.returned = IF Ok(W.st) /\ W.st.ret.kind = "list"
                                 THEN Ids(W.st.ret.items) ELSE <<>>]

\* the task _check_for_corrections, once its sleep(2) is over; it swallows
\* every exception
CheckForCorrections(s, llm_ok) ==
    /\ checks[s] > 0
    /\ checks' = [checks EXCEPT ![s] = @ - 1]
    /\ DoneAnalyze("_check_for_corrections", s, check_window_size,
                   AnalyzeThenCorrect(W0, s, check_window_size, llm_ok))
    /\ UNCHANGED <<_active, _correction_task, _initialized, inflight>>

\* a caller's analyze_conversation(session_id, window_size)
AnalyzeConversation(s, window_size) ==
    /\ \E llm_ok \in BOOLEAN :
         DoneAnalyze("analyze_conversation", s, window_size,
                     [W0 EXCEPT !.st = analyze_conversation(St, s, window_size,
                                                            llm_ok)])
    /\ UNCHANGED <<_active, _correction_task, _initialized, inflight, checks>>

DoneSweep(order, W) ==
    /\ AgentDone("_correction_loop", W.st, W.hist, W.rec, {})
    /\ _correction_task' = IF Ok(W.st) THEN "sleep60"
                            ELSE IF Caught(W.st.exc) THEN "sleep5"
                            ELSE "done"
    /\ trace' = [NoTrace EXCEPT
                    !.op = "_correction_loop",
                    !.initialized = _initialized,
                    !.enumerated = {order[i] : i \in DOMAIN order},
                    !.with_blocks = {s \in SessionIds : HeldIn(s) # {}},
                    !.visited = W.visited, !.completed = W.completed,
                    !.exc = W.st.exc]

\* one pass of the body of _correction_loop, once its sleep(60) is over
Sweep(order, llm_ok) ==
    /\ _correction_task = "sleep60"
    /\ _active
    /\ order \in Orders(SweepSessions(St))
    /\ DoneSweep(order, SweepLoop(W0, order, 1, llm_ok))
    /\ UNCHANGED <<_active, _initialized, inflight, checks>>

\* the sleep(5) of the except clause is over: back to while self._active
Backoff ==
    /\ _correction_task = "sleep5"
    /\ _correction_task' = IF _active THEN "sleep60" ELSE "done"
    /\ UNCHANGED <<storeVars, correctorVars, last, stored, evicted,
                   warm_hits, chainVars, orphan_tasks, _active, _initialized,
                   inflight,
                   checks, trace>>

\* MemoryAgent.shutdown: SelfCorrector.stop() cancels the loop's task and
\* awaits it, then the manager is shut down
Shutdown ==
    /\ _initialized
    /\ _active' = FALSE
    /\ _correction_task' = IF _correction_task = "None" THEN "None" ELSE "done"
    /\ _initialized' = FALSE
    /\ last' = [NoCall EXCEPT !.op = "shutdown"]
    /\ UNCHANGED <<storeVars, correctorVars, stored, evicted, warm_hits,
                   chainVars, orphan_tasks, inflight, checks, trace>>

NextAgent ==
    \/ \E s \in SessionIds, k \in Keys : ProcessMessageUser(s, k)
    \/ \E s \in SessionIds, k \in Keys : ProcessMessageAssistant(s, k)
    \/ \E s \in SessionIds, llm_ok \in BOOLEAN : CheckForCorrections(s, llm_ok)
    \/ \E s \in SessionIds, w \in WindowSizes : AnalyzeConversation(s, w)
    \/ \E q \in Orders(SweepSessions(St)), llm_ok \in BOOLEAN :
          Sweep(q, llm_ok)
    \/ Backoff
    \/ Shutdown

SpecAgent == Init /\ [][NextAgent]_vars

\* the event loop resumes the loop's task when its sleep(5) is over
SpecAgentFair == SpecAgent /\ WF_vars(Backoff)

\* ---- ingestion while blocks of the session are deleted ----

\* delete_block(block_id, session_id), as the corrector and clear_session
\* call it
DeleteSessionBlock(block_id) ==
    /\ Done("delete_block", block_id, NoTier,
            delete_block(St, block_id, SessionOf(block_id)))
    /\ UNCHANGED <<correctorVars, warm_hits, agentVars, chainVars,
                   orphan_tasks>>

NextIngest ==
    \/ \E s \in SessionIds, k \in Keys : ProcessMessageUser(s, k)
    \/ \E s \in SessionIds, k \in Keys : ProcessMessageAssistant(s, k)
    \/ \E s \in SessionIds, llm_ok \in BOOLEAN : CheckForCorrections(s, llm_ok)
    \/ \E k \in Keys : DeleteSessionBlock(k)

SpecIngest == Init /\ [][NextIngest]_vars

\* ---- SelfCorrector.start() and stop(), called directly ----

\* a task that has not ended
Live(task) == task \in {"sleep60", "sleep5"}

\* start(): a new task is created and assigned to _correction_task whatever
\* the field held before; the task it held goes on running
Start ==
    /\ _active' = TRUE
    /\ IF enable_auto_correction
       THEN /\ Live(_correction_task) => orphan_tasks < MaxOrphans
            /\ _correction_task' = "sleep60"
            /\ orphan_tasks' = IF Live(_correction_task) THEN orphan_tasks + 1
                               ELSE orphan_tasks
       ELSE UNCHANGED <<_correction_task, orphan_tasks>>
    /\ last' = [NoCall EXCEPT !.op = "start"]
    /\ UNCHANGED <<storeVars, correctorVars, stored, evicted, warm_hits,
                   chainVars, _initialized, inflight, checks, trace>>

\* stop(): the task _correction_task refers to is cancelled and awaited
Stop ==
    /\ _active' = FALSE
    /\ _correction_task' = IF _correction_task = "None" THEN "None" ELSE "done"
    /\ last' = [NoCall EXCEPT !.op = "stop"]
    /\ UNCHANGED <<storeVars, correctorVars, stored, evicted, warm_hits,
                   chainVars, orphan_tasks, _initialized, inflight, checks,
                   trace>>

\* the pass of a replaced task; an exception of the body is caught by the
\* loop (Caught), so the task stays alive
DoneOrphan(order, W) ==
    /\ AgentDone("_correction_loop", W.st, W.hist, W.rec, {})
    /\ trace' = [NoTrace EXCEPT
                    !.op = "orphan",
                    !.initialized = _initialized,
                    !.enumerated = {order[i] : i \in DOMAIN order},
                    !.with_blocks = {s \in SessionIds : HeldIn(s) # {}},
                    !.visited = W.visited, !.completed = W.completed,
                    !.exc = W.st.exc]

\* the sleep of a task start() replaced is over: one pass of the loop's body
\* while _active holds; with _active false the body lists the blocks, leaves
\* the for loop at its first test and the while loop ends
OrphanSweep(order, llm_ok) ==
    /\ orphan_tasks > 0
    /\ order \in Orders(SweepSessions(St))
    /\ IF _active
       THEN DoneOrphan(order, SweepLoop(W0, order, 1, llm_ok))
       ELSE /\ orphan_tasks' = orphan_tasks - 1
            /\ last' = [NoCall EXCEPT !.op = "_correction_loop"]
            /\ trace' = [NoTrace EXCEPT !.op = "orphan",
                                        !.initialized = _initialized]
            /\ UNCHANGED <<storeVars, correctorVars, stored, evicted,
                           warm_hits, chainVars>>
    /\ UNCHANGED <<_active, _correction_task, _initialized, inflight, checks>>

NextLoop ==
    \/ Start
    \/ Stop
    \/ \E k \in Keys :
          StoreBlock(k, "hot")
          /\ UNCHANGED <<correctorVars, warm_hits, agentVars, chainVars,
                         orphan_tasks>>
    \/ \E q \in Orders(SweepSessions(St)), llm_ok \in BOOLEAN :
          Sweep(q, llm_ok)
    \/ \E q \in Orders(SweepSessions(St)), llm_ok \in BOOLEAN :
          OrphanSweep(q, llm_ok)

SpecLoop == Init /\ [][NextLoop]_vars

\* ---- the evaluators, called directly ----
\* the record of an evaluator call: its arguments, and what it returned
EvalCall(op, args, llm_ok, S) ==
    [op |-> op, key |-> 0, tier |-> NoTier, exc |-> S.exc,
     ret |-> IF Ok(S) THEN S.ret.kind ELSE "raised",
     args |-> args, llm_ok |-> llm_ok,
     returned |-> IF Ok(S) THEN <<S.ret>> ELSE <<>>]

DoneEval(op, args, llm_ok, S) ==
    /\ last' = EvalCall(op, args, llm_ok, S)
    /\ UNCHANGED <<storeVars, correctorVars, stored, evicted, warm_hits,
                   agentVars, chainVars, orphan_tasks>>

\* the weights a caller passes to a constructor
WeightValues == {0, 10, 30}
\* HeuristicRelevanceEvaluator(semantic_weight=..., ...)
Construct(w) == DoneEval("__init__", <<w>>, FALSE, __init__(St, w))

\* the scores, factors and thresholds _make_decision is called with
OverallValues == {0, 39, 40, 69, 70, 82, 100}
FactualValues == {10, 29, 30, 90}
SemanticValues == {10, 19, 20, 90}
ThresholdSets == {DefaultThresholds,
                  [keep_threshold |-> 80, review_threshold |-> 50]}
FactorsWith(fc, sa) ==
    [f \in FactorNames |->
        CASE f = "factual_consistency" -> fc
          [] f = "semantic_alignment" -> sa
          [] OTHER -> 90]
MakeDecision(overall, fc, sa, metadata) ==
    DoneEval("_make_decision", <<overall, FactorsWith(fc, sa), metadata>>,
             FALSE,
             _make_decision(St, overall, FactorsWith(fc, sa), metadata))

\* the RelevanceScore objects _combine_scores is called with: pydantic
\* admits only members of Decision as their decision
ScoreInputs ==
    {RelevanceScore(o, [f \in FactorNames |-> o], d) :
        o \in {30, 80}, d \in Decision}
CombineScores(heuristic_score, llm_score) ==
    DoneEval("_combine_scores", <<heuristic_score, llm_score>>, FALSE,
             _combine_scores(St, heuristic_score, llm_score))

\* the block and the contexts evaluate is called with
EvalBlock(k) == NewBlock(k, ScoreOf(k), ContentOf(k), NoMetadata)
Contexts == {<<>>, <<EvalBlock(1)>>}
\* CompositeRelevanceEvaluator.evaluate(block, context), with the provider
\* up (llm_ok) or failing
Evaluate(k, context, llm_ok) ==
    DoneEval("evaluate", <<k, context>>, llm_ok,
             evaluate(St, EvalBlock(k), context, llm_ok))

NextEvaluator ==
    \/ \E w \in [FactorNames -> WeightValues] : Construct(w)
    \/ \E o \in OverallValues, fc \in FactualValues, sa \in SemanticValues,
          md \in ThresholdSets : MakeDecision(o, fc, sa, md)
    \/ \E h \in ScoreInputs, l \in ScoreInputs : CombineScores(h, l)
    \/ \E k \in Keys, c \in Contexts, llm_ok \in BOOLEAN :
          Evaluate(k, c, llm_ok)

SpecEvaluator == Init /\ [][NextEvaluator]_vars

\* ---- MessageChain ----
Ch == [chains |-> chains, message_index |-> message_index, ret |-> "None"]

\* the state a chain method leaves; the record of the call keeps what it
\* returned and, for rollback_to, its arguments
RECURSIVE TotalLen(_, _)
\* the number of messages the chains hold
TotalLen(chains_, i) ==
    IF i > Len(chains_) THEN 0
    ELSE Len(chains_[i].value) + TotalLen(chains_, i + 1)

DoneChain(op, args, C) ==
    /\ TotalLen(C.chains, 1) <= MaxChain
    /\ chains' = C.chains
    /\ message_index' = C.message_index
    /\ last' = [NoCall EXCEPT !.op = op, !.args = args, !.ret = C.ret]
    /\ UNCHANGED <<storeVars, correctorVars, stored, evicted, warm_hits,
                   agentVars, orphan_tasks>>

AddMessage(message, session_id) ==
    DoneChain("add_message", <<>>,
              add_message(Ch, message, session_id))
RemoveMessage(message_id) ==
    DoneChain("remove_message", <<>>,
              remove_message(Ch, message_id))
\* the record keeps the length of the session's list before the call
RollbackTo(message_id, session_id) ==
    DoneChain("rollback_to",
              <<message_id, session_id, Len(ChainOf(Ch, session_id))>>,
              rollback_to(Ch, message_id, session_id))
InsertMessageAfter(message_id, new_message, session_id) ==
    DoneChain("insert_message_after", <<>>,
              insert_message_after(Ch, message_id, new_message, session_id))
ReplaceMessage(message_id, new_message, session_id) ==
    DoneChain("replace_message", <<>>,
              replace_message(Ch, message_id, new_message, session_id))

NextChain ==
    \/ \E m \in MessagesIn, s \in SessionIds : AddMessage(m, s)
    \/ \E id \in MsgIds : RemoveMessage(id)
    \/ \E id \in MsgIds, s \in SessionIds : RollbackTo(id, s)
    \/ \E id \in MsgIds, m \in MessagesIn, s \in SessionIds :
          InsertMessageAfter(id, m, s)
    \/ \E id \in MsgIds, m \in MessagesIn, s \in SessionIds :
          ReplaceMessage(id, m, s)

SpecChain == Init /\ [][NextChain]_vars

(***************************************************************************)
(* Properties of the tiered store.                                         *)
(***************************************************************************)
InTier(k, t) ==
    CASE t = "hot" -> OdHas(_hot_store, k)
      [] t = "warm" -> OdHas(_warm_store, k)
      [] OTHER -> OdHas(_cold_store, k)
TiersOf(k) == {t \in Tiers : InTier(k, t)}
\* the tiers holding k after the step
TiersNext(k) ==
    {t \in Tiers : OdHas(CASE t = "hot" -> _hot_store'
                           [] t = "warm" -> _warm_store'
                           [] OTHER -> _cold_store', k)}

\* the call returned a block
IsBlock(S) == Ok(S) /\ S.ret # None
\* retrieve_block(k), called in the current state, finds k
Found(k) == IsBlock(retrieve_block(St, k, NoSession, 0))

C2_StoredIsFound == \A k \in stored : Found(k)

\* C3: each tier holds at most its configured capacity.
C3_WithinCapacity ==
    /\ Len(_hot_store) <= hot_capacity
    /\ Len(_warm_store) <= warm_capacity
    /\ Len(_cold_store) <= cold_capacity

\* a store completed and left the Hot tier full
C3_Witness ==
    /\ last.op = "store_block" /\ last.exc = "none"
    /\ Len(_hot_store) = hot_capacity

\* C4: storing a new block into a full Hot tier demotes exactly the least
\* recently used block to Warm; the others stay, and Hot is full again.
C4_HotOverflowDemotesLRU ==
    [][\A k \in Keys :
         (/\ last'.op = "store_block" /\ last'.key = k /\ last'.tier = "hot"
          /\ Len(_hot_store) = hot_capacity
          /\ ~OdHas(_tier_index, k))
         => (/\ last'.exc = "none"
             /\ OdKeySeq(_hot_store') = Append(Tail(OdKeySeq(_hot_store)), k)
             /\ OdKeys(_warm_store') = OdKeys(_warm_store) \cup {_hot_store[1].key})
      ]_vars

\* C5: a block stored at Warm and then retrieved 6 times is, after the 6th
\* retrieval, held by the Hot tier and by no other.
C5_WarmPromotedOnSixth ==
    \A k \in Keys :
        warm_hits[k] = promotion_access_count + 1 => TiersOf(k) = {"hot"}

\* C7: migrate_tier on a block held by a tier returns True and leaves the
\* block in the target tier only; on an unknown id it returns False and
\* changes no tier.
C7_MigrateMoves ==
    [][\A k \in Keys, t \in Tiers :
         (last'.op = "migrate_tier" /\ last'.key = k /\ last'.tier = t)
         => IF TiersOf(k) # {}
            THEN last'.ret = "True" /\ TiersNext(k) = {t}
            ELSE last'.ret = "False" /\ UNCHANGED storeVars
      ]_vars

(***************************************************************************)
(* Properties of the corrector.                                            *)
(***************************************************************************)
IdsOf(problematic_blocks) ==
    [i \in DOMAIN problematic_blocks |-> problematic_blocks[i].block.block_id]

\* C9: correct_conversation over pairs flagged for removal (DISCARD, "remove
\* from chain", in the enum) whose blocks are stored removes the first
\* max_corrections_per_cycle of them, in input order, and leaves the rest
\* stored.
C9_CapInInputOrder ==
    [][(/\ last'.op = "correct_conversation"
        /\ \A i \in DOMAIN last'.args :
              /\ last'.args[i].decision = "DISCARD"
              /\ TiersOf(last'.args[i].block.block_id) # {})
       => LET ids == IdsOf(last'.args)
              n == Min(Len(ids), max_corrections_per_cycle)
          IN  /\ last'.exc = "none"
              /\ last'.returned =
                    [i \in 1..n |-> [type |-> "removal", block_id |-> ids[i],
                                     new_block_id |-> 0]]
              /\ \A i \in 1..n : TiersNext(ids[i]) = {}
              /\ \A i \in (n + 1)..Len(ids) : TiersNext(ids[i]) # {}
      ]_vars

\* C10: when the repair of a stored block flagged for review (REEVALUATE in
\* the enum) succeeds, the original is gone, the replacement is stored under
\* the id with the suffix, with 1.5 times the overall score and the original
\* content as metadata, and the history gains exactly one improvement entry.
C10_ReviewReplaces ==
    [][(/\ last'.op = "correct_conversation"
        /\ Len(last'.args) = 1
        /\ last'.args[1].decision = "REEVALUATE"
        /\ last'.llm_ok
        /\ TiersOf(last'.args[1].block.block_id) # {})
       => LET block == last'.args[1].block
              new_id == Improved(block.block_id)
          IN  /\ TiersNext(block.block_id) = {}
              /\ Cardinality(TiersNext(new_id)) = 1
              /\ OdHas(_hot_store', new_id) =>
                    /\ OdValue(_hot_store', new_id).relevance_score
                          = (last'.args[1].overall_score * 3) \div 2
                    /\ OdValue(_hot_store', new_id).metadata = block.content
              /\ _correction_history' =
                    Append(_correction_history,
                           [type |-> "improvement", block_id |-> block.block_id,
                            new_block_id |-> new_id])
      ]_vars

\* C11: when the provider call fails during the repair of a stored block
\* flagged for review (REEVALUATE), correct_conversation does not raise,
\* returns no correction for it, leaves the block stored as it was, stores
\* no replacement and appends nothing to the history.
C11_ProviderFailureSkips ==
    [][(/\ last'.op = "correct_conversation"
        /\ Len(last'.args) = 1
        /\ last'.args[1].decision = "REEVALUATE"
        /\ ~last'.llm_ok
        /\ TiersOf(last'.args[1].block.block_id) # {})
       => /\ last'.exc = "none"
          /\ last'.returned = <<>>
          /\ TiersNext(last'.args[1].block.block_id)
                = TiersOf(last'.args[1].block.block_id)
          /\ TiersNext(Improved(last'.args[1].block.block_id)) = {}
          /\ _correction_history' = _correction_history
      ]_vars

\* C12: an item of correct_conversation whose block is no longer in storage
\* is skipped, for the removal (DISCARD) and for the review (REEVALUATE)
\* decision alike: the call does not raise, no replacement is stored and no
\* history entry is recorded for the item.
C12_MissingBlockSkipped ==
    [][(/\ last'.op = "correct_conversation"
        /\ Len(last'.args) = 1
        /\ last'.args[1].decision \in {"DISCARD", "REEVALUATE"}
        /\ TiersOf(last'.args[1].block.block_id) = {})
       => /\ last'.exc = "none"
          /\ last'.returned = <<>>
          /\ TiersNext(Improved(last'.args[1].block.block_id)) = {}
          /\ _correction_history' = _correction_history
      ]_vars

\* C19: a block stored at Hot and since neither evicted from Hot nor
\* deleted is returned by retrieve_block under its id with the content that
\* was stored, whatever was done to other blocks in between.
C19_HotRoundTrip ==
    \A k \in Keys :
        OdHas(_hot_store, k)
        => /\ IsBlock(retrieve_block(St, k, NoSession, 0))
           /\ retrieve_block(St, k, NoSession, 0).ret.block_id = k
           /\ retrieve_block(St, k, NoSession, 0).ret.content = ContentOf(k)

\* a long block read back from a full Hot tier after a store of another block
C19_Witness ==
    /\ last.op = "retrieve_block"
    /\ last.ret = "block"
    /\ ContentOf(last.key) = "long"
    /\ OdHas(_hot_store, last.key)
    /\ OdValue(_hot_store, last.key).content = "long"
    /\ Len(_hot_store) = hot_capacity

Range(q) == {q[i] : i \in DOMAIN q}

\* C13: when an exception is raised while a sweep works on one session, the
\* sweep still analyzes every other session it enumerated.
C13_SweepIsolatesSessions ==
    (trace.op = "_correction_loop" /\ trace.exc # "none")
    => trace.enumerated \subseteq Range(trace.visited)

\* C14: while the corrector is running an exception escaping a sweep does
\* not end the background loop: the task is done only after stop(), and
\* from its back-off sleep the loop returns to wait for its next sweep.
C14_LoopSurvivesExceptions ==
    /\ [](_correction_task = "done" => ~_active)
    /\ (_correction_task = "sleep5")
          ~> (_correction_task = "sleep60" \/ ~_active)

\* a sweep raised, and the loop is back waiting for its next sweep
C14_Witness ==
    /\ trace.op = "_correction_loop"
    /\ trace.exc # "none"
    /\ _active
    /\ _correction_task = "sleep60"

\* C15: a sweep runs analyze and then correct to the end for every session
\* that has a block stored when the sweep enumerates the sessions.
C15_SweepCoversSessions ==
    trace.op = "_correction_loop"
    => trace.with_blocks \subseteq Range(trace.completed)

\* C16: no correction activity (a sweep or a per-message check) works on
\* the storage after shutdown() has returned.
C16_NoCorrectionAfterShutdown ==
    trace.op \in {"_correction_loop", "_check_for_corrections"}
    => trace.initialized

\* C18: analyze_conversation(session, window) returns, in order, exactly
\* the blocks among the session's window most recently ingested stored
\* blocks whose overall score is below review_threshold.
C18_AnalyzeReturnsBelowThreshold ==
    trace.op = "analyze_conversation"
    => /\ trace.exc = "none"
       /\ trace.returned =
            SelectSeq(Recent(SelectSeq(trace.listed,
                                       LAMBDA k : TiersOf(k) # {}),
                             trace.window),
                      LAMBDA k : EvalScore(k) < review_threshold)


\* the tier the storage contract names for a store of block k: the explicit
\* tier when one is given, else the tier of the score band
ExpectedTier(k, tier) ==
    IF tier # NoTier THEN tier
    ELSE IF ScoreOf(k) > promotion_threshold THEN "hot"
    ELSE IF ScoreOf(k) > relevance_threshold THEN "warm"
    ELSE "cold"

\* C21: store_block of a scored block without a tier places it in Hot when
\* its score is above 0.7, else in Warm when above 0.4, else in Cold; with an
\* explicit tier it is placed in exactly that tier.
C21_TierByScoreOrExplicit ==
    [][(last'.op = "store_block" /\ ScoreOf(last'.key) # NoScore)
       => (/\ last'.exc = "none"
           /\ TiersNext(last'.key) = {ExpectedTier(last'.key, last'.tier)})
      ]_vars

\* C22: store_block without a tier of a block whose relevance_score was
\* never set completes without error and leaves the block in Hot.
C22_UnscoredGoesHot ==
    [][(/\ last'.op = "store_block" /\ last'.tier = NoTier
        /\ ScoreOf(last'.key) = NoScore)
       => (last'.exc = "none" /\ "hot" \in TiersNext(last'.key))
      ]_vars

\* the number of entries tier t holds
TierLen(t) ==
    CASE t = "hot" -> Len(_hot_store)
      [] t = "warm" -> Len(_warm_store)
      [] OTHER -> Len(_cold_store)
TierCapacity(t) ==
    CASE t = "hot" -> hot_capacity
      [] t = "warm" -> warm_capacity
      [] OTHER -> cold_capacity

\* C23: a store into a tier that is already full completes without error
\* and the stored block is resident in that tier afterwards.
C23_OverflowNeverFaults ==
    [][(/\ last'.op = "store_block" /\ last'.tier # NoTier
        /\ TierLen(last'.tier) = TierCapacity(last'.tier)
        /\ ~InTier(last'.key, last'.tier))
       => (last'.exc = "none" /\ last'.tier \in TiersNext(last'.key))
      ]_vars


\* the claim's Remove / Review / Keep, whichever member name carries them
IsRemove(d) == d \in {"REMOVE", "DISCARD"}
IsReview(d) == d \in {"REVIEW", "REEVALUATE"}
IsKeep(d) == d \in {"KEEP", "RETAIN"}

\* C26: whenever factual_consistency < 0.3 or semantic_alignment < 0.2,
\* _make_decision returns Remove, whatever the overall score and the
\* keep/review thresholds.
C26_OverrideRemoves ==
    (/\ last.op = "_make_decision"
     /\ \/ last.args[2].factual_consistency < factual_floor
        \/ last.args[2].semantic_alignment < semantic_floor)
    => (/\ last.exc = "none"
        /\ IsRemove(last.returned[1].value))

\* C27: with both override factors at or above their floors, _make_decision
\* returns Remove below the review threshold, Review from there up to the
\* keep threshold, Keep at or above it.
C27_DecisionByBand ==
    (/\ last.op = "_make_decision"
     /\ last.args[2].factual_consistency >= factual_floor
     /\ last.args[2].semantic_alignment >= semantic_floor)
    => (/\ last.exc = "none"
        /\ IF last.args[1] >= last.args[3].keep_threshold
           THEN IsKeep(last.returned[1].value)
           ELSE IF last.args[1] >= last.args[3].review_threshold
           THEN IsReview(last.returned[1].value)
           ELSE IsRemove(last.returned[1].value))

\* how conservative a decision is: Remove over Review over Keep
Severity(d) == IF IsRemove(d) THEN 2 ELSE IF IsReview(d) THEN 1 ELSE 0

\* C28: _combine_scores returns a score whose decision is the more
\* conservative of the two it was given.
C28_MergedIsMoreConservative ==
    last.op = "_combine_scores"
    => (/\ last.exc = "none"
        /\ Severity(last.returned[1].decision)
             = Max(Severity(last.args[1].decision),
                   Severity(last.args[2].decision)))

\* C29: when the model-based evaluation raises, the composite evaluate
\* raises nothing and returns the score of the heuristic evaluation alone.
C29_ProviderFailureDegrades ==
    (/\ last.op = "evaluate"
     /\ ~Ok(llm_evaluate(St, EvalBlock(last.args[1]), last.args[2],
                         last.llm_ok)))
    => (/\ last.exc = "none"
        /\ last.returned[1].overall_score = EvalScore(last.args[1])
        /\ last.returned[1].factors = EvalFactors(last.args[1]))

\* C30: every construction succeeds and leaves five weights that sum to 1.
C30_WeightsNormalised ==
    last.op = "__init__"
    => (/\ last.exc = "none"
        /\ SumOver(last.returned[1].num, 1) = last.returned[1].den)

\* how fast a tier is: Hot over Warm over Cold
Speed(t) == CASE t = "hot" -> 3 [] t = "warm" -> 2 [] OTHER -> 1
\* the blocks the step moves to a faster tier, to a slower tier, out of
\* every tier
MovedFaster ==
    {k \in AllIds : \E t \in TiersOf(k), u \in TiersNext(k) :
                       Speed(u) > Speed(t)}
MovedSlower ==
    {k \in AllIds : \E t \in TiersOf(k), u \in TiersNext(k) :
                       Speed(u) < Speed(t)}
MovedOut == {k \in AllIds : TiersOf(k) # {} /\ TiersNext(k) = {}}

\* the tier the optimisation policy names for block k held in tier t
\* ("none": deleted)
PolicyTier(k, t, access_count) ==
    IF ScoreOf(k) < relevance_threshold THEN "none"
    ELSE IF AgeOf(k) > hot_max_age /\ t = "hot" THEN "warm"
    ELSE IF AgeOf(k) > warm_max_age /\ t = "warm" THEN "cold"
    ELSE IF access_count > optimize_access_count /\ t # "hot" THEN "hot"
    ELSE t

\* C24: optimize_storage deletes each block scored below the base
\* threshold, else demotes it from Hot after 24h, else from Warm after 72h,
\* else promotes it to Hot above 10 accesses, and returns the numbers of
\* blocks it promoted, demoted and removed.
C24_OptimizeAppliesPolicy ==
    [][last'.op = "optimize_storage"
       => (/\ last'.exc = "none"
           /\ \A i \in DOMAIN _hot_store :
                ScoreOf(_hot_store[i].key) # NoScore
                => TiersNext(_hot_store[i].key)
                     = {PolicyTier(_hot_store[i].key, "hot",
                                   _hot_store[i].value.access_count + 1)}
                       \ {"none"}
           /\ last'.returned[1].promoted = Cardinality(MovedFaster)
           /\ last'.returned[1].demoted = Cardinality(MovedSlower)
           /\ last'.returned[1].removed = Cardinality(MovedOut))
      ]_vars

\* C25: in every step the promotions counter grows by the number of blocks
\* moved to a faster tier, the demotions counter by the number moved to a
\* slower tier, the evictions counter by the number that left every tier.
C25_StatsAccurate ==
    [][/\ _migration_stats'.promotions - _migration_stats.promotions
            = Cardinality(MovedFaster)
       /\ _migration_stats'.demotions - _migration_stats.demotions
            = Cardinality(MovedSlower)
       /\ _migration_stats'.evictions - _migration_stats.evictions
            = Cardinality(MovedOut)
      ]_vars

\* C31: in every reachable state each session's list has non-decreasing
\* timestamps.
C31_TimestampsOrdered ==
    \A c \in DOMAIN chains :
        \A i \in 2..Len(chains[c].value) :
            chains[c].value[i].timestamp >= chains[c].value[i - 1].timestamp

\* C32: every indexed id is the id of a message in some session's list, and
\* every message in a session's list has its id in the index.
C32_IndexAgreesWithLists ==
    /\ \A id \in DOMAIN message_index :
         \E c \in DOMAIN chains :
            \E i \in DOMAIN chains[c].value : chains[c].value[i].id = id
    /\ \A c \in DOMAIN chains :
         \A i \in DOMAIN chains[c].value :
            chains[c].value[i].id \in DOMAIN message_index

\* the indexed message of id is in the list of session s
PresentIn(id, s) ==
    /\ id \in DOMAIN message_index
    /\ InChain(message_index[id], ChainOf(Ch, s))
\* the list of session s after the step
ChainNext(s) ==
    IF OdHas(chains', s) THEN OdValue(chains', s) ELSE <<>>

\* C40: rollback_to(id, s) on a message in the list of s returns True, cuts
\* the list right after that message, leaves the other lists alone and
\* deletes from the index exactly the ids of the messages cut off; otherwise
\* it returns False and changes neither a list nor the index.
C40_RollbackTruncates ==
    [][last'.op = "rollback_to"
       => IF PresentIn(last'.args[1], last'.args[2])
          THEN /\ last'.ret = "True"
               /\ \E n \in DOMAIN ChainOf(Ch, last'.args[2]) :
                    /\ ChainOf(Ch, last'.args[2])[n]
                         = message_index[last'.args[1]]
                    /\ ChainNext(last'.args[2])
                         = SubSeq(ChainOf(Ch, last'.args[2]), 1, n)
                    /\ DOMAIN message_index'
                         = DOMAIN message_index
                           \ IdsFrom(ChainOf(Ch, last'.args[2]), n + 1)
               /\ \A id \in DOMAIN message_index' :
                    message_index'[id] = message_index[id]
               /\ \A s \in SessionIds \ {last'.args[2]} :
                    ChainNext(s) = ChainOf(Ch, s)
          ELSE last'.ret = "False" /\ UNCHANGED chainVars
      ]_vars

\* a rollback cut a list of three down to its first two messages
C40_Witness ==
    /\ last.op = "rollback_to" /\ last.ret = "True"
    /\ last.args[3] = 3
    /\ Len(ChainOf(Ch, last.args[2])) = 2

\* the tasks of the corrector that have not ended
LiveTasks == (IF Live(_correction_task) THEN 1 ELSE 0) + orphan_tasks

\* C34: whatever start() and stop() calls were made, the corrector has at
\* most one background task that has not ended, and none once stop() has
\* returned.
C34_OneCorrectionTask ==
    /\ LiveTasks <= 1
    /\ last.op = "stop" => LiveTasks = 0

\* the blocks of a session the agent ingested, in the order of ingestion
\* (the order of the keys of _tier_index), that the Hot tier holds
Ingested(s) ==
    SelectSeq(OdKeySeq(_tier_index),
              LAMBDA k : /\ k \in _session_index[s]
                         /\ OdHas(_hot_store, k)
                         /\ "sequence_number"
                              \in DOMAIN OdValue(_hot_store, k))

\* C33: of two blocks of a session, the one ingested later has the strictly
\* greater sequence number, whatever deletions happened in between.
C33_SequenceMonotonic ==
    \A s \in SessionIds :
        \A i, j \in DOMAIN Ingested(s) :
            i < j => OdValue(_hot_store, Ingested(s)[i]).sequence_number
                       < OdValue(_hot_store, Ingested(s)[j]).sequence_number

\* C35: a retrieval of a block stored at Warm (a Warm hit, before the
\* promotion of the sixth) leaves the block the most recently used entry of
\* the Warm tier, so that an overflow of Warm demotes another one.
C35_WarmHitIsMostRecent ==
    \A k \in Keys :
        (/\ last.op = "retrieve_block" /\ last.key = k
         /\ warm_hits[k] \in 1..promotion_access_count)
        => /\ _warm_store # <<>>
           /\ _warm_store[Len(_warm_store)].key = k

\* C36: a block stored at Warm and not deleted since is returned by
\* retrieve_block under its id with the content it was stored with, whether
\* its serialized form was compressed ("long") or not ("short").
C36_WarmRoundTrip ==
    \A k \in Keys :
        warm_hits[k] >= 0
        => /\ IsBlock(retrieve_block(St, k, NoSession, 0))
           /\ retrieve_block(St, k, NoSession, 0).ret.block_id = k
           /\ retrieve_block(St, k, NoSession, 0).ret.content = ContentOf(k)

C38_ListMatchesResidency ==
    \A t \in Tiers :
        {list_blocks(St, t, NoSession)[i] :
            i \in DOMAIN list_blocks(St, t, NoSession)}
          = {k \in AllIds : InTier(k, t)}

\* C39: a call of analyze_conversation deletes no block, evicts nothing and
\* leaves every block in the tier that held it; of a block it changes at most
\* access_count (last_accessed is not modelled).
C39_AnalyzeNonDestructive ==
    [][last'.op = "analyze_conversation"
       => /\ \A k \in AllIds : TiersNext(k) = TiersOf(k)
          /\ \A k \in OdKeys(_hot_store) :
               [OdValue(_hot_store', k) EXCEPT
                   !.access_count = OdValue(_hot_store, k).access_count]
                 = OdValue(_hot_store, k)
          /\ _warm_store' = _warm_store
          /\ _cold_store' = _cold_store
          /\ _tier_index' = _tier_index
          /\ _session_index' = _session_index
          /\ _tier_assignments' = _tier_assignments
          /\ _migration_stats' = _migration_stats
          /\ evicted' = evicted
          /\ stored' = stored
      ]_vars

\* an analysis ran over a session whose two blocks the Hot tier holds
C39_Witness ==
    /\ last.op = "analyze_conversation"
    /\ Len(trace.listed) = 2
    /\ \A i \in DOMAIN trace.listed :
          /\ OdHas(_hot_store, trace.listed[i])
          /\ OdValue(_hot_store, trace.listed[i]).access_count >= 1

====
